---- MODULE Spec2Model ----
(***************************************************************************)
(* NSEC cache datastore: the payload codec (nsecchain/encoder.py,          *)
(* nsecchain/decoder.py), the name generator and ordering predicate        *)
(* (nsecchain/ordering.py), the NSEC response extractor                    *)
(* (nsecchain/parser.py), the zone generator (scripts/generate_zone.py)    *)
(* and the chain walkers (scripts/prime.py, scripts/verify_synthesis.py).  *)
(*                                                                         *)
(* Text is a sequence of one-character strings, bytes are numbers 0..255.  *)
(***************************************************************************)
EXTENDS Integers, Sequences, FiniteSets, TLC

\* ------------------------------------------------------------------ bounds
\* longest byte string handed to the codec
MaxBytes == 6
\* longest message, in characters
MaxMsgLen == 2
\* largest chunk size
MaxChunkSize == 2
\* verification runs after the priming run
MaxVerifyRuns == 2
\* bytes of a message handed to chunk_message on its own
MaxChunkedLen == 4
\* chunk sizes and label lengths handed to the chunking functions
MaxSize == 3
\* characters of a text handed to split_into_labels on its own
MaxTextLen == 6
\* characters of a text handed to decode_labels on its own
MaxLabelsLen == 4
\* payload chunks handed to decode_payload on its own
MaxChunkList == 3
\* record sets in a section of a response handed to the parser on its own
MaxSectionLen == 2
\* 'query:' lines the authoritative server's log grows to
MaxAuthQueries == 1
\* characters of the message of a demo run with a growing log
MaxVerdictMsgLen == 1
\* characters of the long message handed to generate_zone_file on its own
ManyChunks == 247
\* indices 0..MaxSmallIndex, next to the ones around a change of digit count
MaxSmallIndex == 1

\* ------------------------------------------------------------ characters
UpperChars == << "A","B","C","D","E","F","G","H","I","J","K","L","M",
                 "N","O","P","Q","R","S","T","U","V","W","X","Y","Z" >>
LowerChars == << "a","b","c","d","e","f","g","h","i","j","k","l","m",
                 "n","o","p","q","r","s","t","u","v","w","x","y","z" >>
DigitChars == << "0","1","2","3","4","5","6","7","8","9" >>

\* the characters of the model in ASCII order
AsciiOrder == << "-", "." >> \o DigitChars \o << "=" >> \o UpperChars
                 \o << "_" >> \o LowerChars

Range(s) == { s[k] : k \in 1..Len(s) }
CharSet == Range(AsciiOrder)

\* ord(c), up to an order-preserving renumbering
Ord == [ c \in CharSet |-> CHOOSE k \in 1..Len(AsciiOrder) : AsciiOrder[k] = c ]

\* str.lower() and str.upper() on one character
LowerChar == [ c \in CharSet |->
    IF \E k \in 1..26 : UpperChars[k] = c
    THEN LowerChars[CHOOSE k \in 1..26 : UpperChars[k] = c] ELSE c ]
UpperChar == [ c \in CharSet |->
    IF \E k \in 1..26 : LowerChars[k] = c
    THEN UpperChars[CHOOSE k \in 1..26 : LowerChars[k] = c] ELSE c ]

Lower(s) == [ k \in 1..Len(s) |-> LowerChar[s[k]] ]
Upper(s) == [ k \in 1..Len(s) |-> UpperChar[s[k]] ]

\* s.rstrip(c)
RECURSIVE RStrip(_, _)
RStrip(s, c) ==
    IF Len(s) > 0 /\ s[Len(s)] = c THEN RStrip(SubSeq(s, 1, Len(s) - 1), c) ELSE s

\* s.replace(c, '')
RECURSIVE RemoveChar(_, _)
RemoveChar(s, c) ==
    IF s = << >> THEN << >>
    ELSE IF Head(s) = c THEN RemoveChar(Tail(s), c)
    ELSE << Head(s) >> \o RemoveChar(Tail(s), c)

\* c * n
Repeat(c, n) == [ k \in 1..n |-> c ]

\* s.endswith(t) and s.startswith(t)
EndsWith(s, t) ==
    Len(t) <= Len(s) /\ SubSeq(s, Len(s) - Len(t) + 1, Len(s)) = t
StartsWith(s, t) == Len(t) <= Len(s) /\ SubSeq(s, 1, Len(t)) = t

\* s.split('.'): never empty, '' gives ['']
RECURSIVE SplitRec(_, _, _)
SplitRec(s, c, cur) ==
    IF s = << >> THEN << cur >>
    ELSE IF Head(s) = c THEN << cur >> \o SplitRec(Tail(s), c, << >>)
    ELSE SplitRec(Tail(s), c, cur \o << Head(s) >>)
Split(s, c) == SplitRec(s, c, << >>)

\* c.join(parts)
RECURSIVE Join(_, _)
Join(parts, c) ==
    IF parts = << >> THEN << >>
    ELSE IF Len(parts) = 1 THEN parts[1]
    ELSE parts[1] \o << c >> \o Join(Tail(parts), c)

\* Python's str < str: the first differing character decides, a proper
\* prefix sorts first
RECURSIVE StrLess(_, _)
StrLess(a, b) ==
    IF b = << >> THEN FALSE
    ELSE IF a = << >> THEN TRUE
    ELSE IF Head(a) = Head(b) THEN StrLess(Tail(a), Tail(b))
    ELSE Ord[Head(a)] < Ord[Head(b)]

\* all sequences over S of length at most n
RECURSIVE SeqsUpTo(_, _)
SeqsUpTo(S, n) ==
    IF n = 0 THEN { << >> }
    ELSE LET shorter == SeqsUpTo(S, n - 1)
         IN  shorter \cup { Append(s, x) : s \in shorter, x \in S }

\* ---------------------------------------------------------------- base32
\* RFC 4648 alphabet of base64.b32encode
B32Alphabet == UpperChars \o << "2","3","4","5","6","7" >>

ByteBits(b) == [ k \in 1..8 |-> (b \div (2 ^ (8 - k))) % 2 ]

RECURSIVE BitsOfBytes(_)
BitsOfBytes(s) ==
    IF s = << >> THEN << >> ELSE ByteBits(Head(s)) \o BitsOfBytes(Tail(s))

RECURSIVE BitsValue(_)
BitsValue(bits) ==
    IF bits = << >> THEN 0
    ELSE 2 * BitsValue(SubSeq(bits, 1, Len(bits) - 1)) + bits[Len(bits)]

\* number of '=' that end the last quantum, by len(s) % 5
B32PadCount(leftover) ==
    CASE leftover = 0 -> 0
      [] leftover = 1 -> 6
      [] leftover = 2 -> 4
      [] leftover = 3 -> 3
      [] leftover = 4 -> 1

\* base64.b32encode
b32encode(s) ==
    LET leftover == Len(s) % 5
        padded   == IF leftover = 0 THEN s ELSE s \o Repeat(0, 5 - leftover)
        bits     == BitsOfBytes(padded)
        n        == Len(bits) \div 5
        full     == [ k \in 1..n |->
                        B32Alphabet[1 + BitsValue(SubSeq(bits, 5 * k - 4, 5 * k))] ]
        pad      == B32PadCount(leftover)
    IN  SubSeq(full, 1, n - pad) \o Repeat("=", pad)

\* encode_chunk that keeps the '=' padding of b32encode
encode_chunk_Padded(chunk) == Lower(b32encode(chunk))

\* encoder.py: encode_chunk
encode_chunk(chunk) == Lower(RStrip(b32encode(chunk), "="))

B32Index(c) == CHOOSE k \in 1..32 : B32Alphabet[k] = c
ValueBits(v) == [ k \in 1..5 |-> (v \div (2 ^ (5 - k))) % 2 ]

RECURSIVE BitsOfChars(_)
BitsOfChars(s) ==
    IF s = << >> THEN << >>
    ELSE ValueBits(B32Index(Head(s)) - 1) \o BitsOfChars(Tail(s))

Failure == [ ok |-> FALSE, bytes |-> << >> ]
Success(bytes) == [ ok |-> TRUE, bytes |-> bytes ]

\* base64.b32decode: the result, or Failure where it raises binascii.Error
b32decode(s) ==
    LET stripped == RStrip(s, "=")
        padchars == Len(s) - Len(stripped)
        quanta   == (Len(stripped) + 7) \div 8
        bits     == BitsOfChars(stripped) \o Repeat(0, 40 * quanta - 5 * Len(stripped))
        leftover == (43 - 5 * padchars) \div 8
        nbytes   == IF padchars > 0 /\ quanta > 0
                    THEN 5 * (quanta - 1) + leftover ELSE 5 * quanta
    IN  IF Len(s) % 8 # 0 THEN Failure
        ELSE IF \E k \in 1..Len(stripped) : stripped[k] \notin Range(B32Alphabet)
        THEN Failure
        ELSE IF padchars \notin {0, 1, 3, 4, 6} THEN Failure
        ELSE Success([ k \in 1..nbytes |-> BitsValue(SubSeq(bits, 8 * k - 7, 8 * k)) ])

\* decode_labels without the '=' padding it adds
decode_labels_Unpadded(labels) == b32decode(Upper(RemoveChar(labels, ".")))

\* decode_labels that leaves the dots between label segments in place
decode_labels_KeepsDots(labels) ==
    LET clean          == Upper(labels)
        padding_needed == (8 - (Len(clean) % 8)) % 8
    IN  b32decode(clean \o Repeat("=", padding_needed))

\* decoder.py: decode_labels; Failure where it raises ValueError
decode_labels(labels) ==
    LET clean          == Upper(RemoveChar(labels, "."))
        padding_needed == (8 - (Len(clean) % 8)) % 8
    IN  b32decode(clean \o Repeat("=", padding_needed))

\* ---------------------------------------------------------------- names
\* width of {index:04d}
PadWidth == 4

RECURSIVE DecStr(_)
DecStr(n) ==
    IF n < 10 THEN << DigitChars[n + 1] >>
    ELSE DecStr(n \div 10) \o << DigitChars[(n % 10) + 1] >>

\* f"{index:04d}": zero-padded to PadWidth digits, never truncated
Fmt04d(index) ==
    LET d == DecStr(index)
    IN  IF Len(d) >= PadWidth THEN d ELSE Repeat("0", PadWidth - Len(d)) \o d

\* node_name_for_index that keeps only the last PadWidth digits of the index
node_name_for_index_Truncated(index, encoded_payload, zone, absolute) ==
    LET name == << "n" >> \o Fmt04d(index % (10 ^ PadWidth)) \o << "." >>
                \o encoded_payload \o << "." >> \o RStrip(zone, ".")
    IN  IF absolute THEN name \o << "." >> ELSE name

\* ordering.py: node_name_for_index
node_name_for_index(index, encoded_payload, zone, absolute) ==
    LET name == << "n" >> \o Fmt04d(index) \o << "." >> \o encoded_payload
                \o << "." >> \o RStrip(zone, ".")
    IN  IF absolute THEN name \o << "." >> ELSE name

\* an in-gap name whose suffix is a label of its own
in_gap_name_SuffixLabel(index, zone, suffix, absolute) ==
    LET name == << "n" >> \o Fmt04d(index) \o << ".", suffix, "." >>
                \o RStrip(zone, ".")
    IN  IF absolute THEN name \o << "." >> ELSE name

\* ordering.py: in_gap_name
in_gap_name(index, zone, suffix, absolute) ==
    LET name == << "n" >> \o Fmt04d(index) \o << suffix >> \o << "." >>
                \o RStrip(zone, ".")
    IN  IF absolute THEN name \o << "." >> ELSE name

\* the suffix list of verification_in_gap_name
suffixes == << "m", "k", "j", "h", "g", "f", "e", "d", "c", "b" >>

\* a suffix list whose first entry is the priming suffix
verification_in_gap_name_PrimingSuffix(index, zone, variant) ==
    in_gap_name(index, zone,
                (<< "z" >> \o Tail(suffixes))[(variant % Len(suffixes)) + 1], TRUE)

\* ordering.py: verification_in_gap_name
verification_in_gap_name(index, zone, variant) ==
    in_gap_name(index, zone, suffixes[(variant % Len(suffixes)) + 1], TRUE)

\* a probe's role: priming, or verification with a variant
Roles == { [ role |-> "prime", variant |-> 0 ] }
         \cup { [ role |-> "verify", variant |-> v ] : v \in 0..(Len(suffixes) - 1) }

\* the in-gap name each script builds for an index
gap_name(r, index, zone) ==
    IF r.role = "prime" THEN in_gap_name(index, zone, "z", TRUE)
    ELSE verification_in_gap_name(index, zone, r.variant)

\* is_name_between without the lower() of its arguments
is_name_between_CaseSensitive(name, lower, upper) ==
    StrLess(RStrip(lower, "."), RStrip(name, "."))
    /\ StrLess(RStrip(name, "."), RStrip(upper, "."))

\* ordering.py: is_name_between
is_name_between(name, lower, upper) ==
    LET n == RStrip(Lower(name), ".")
        l == RStrip(Lower(lower), ".")
        u == RStrip(Lower(upper), ".")
    IN  StrLess(l, n) /\ StrLess(n, u)

\* generate_zone.py: the end marker's record name, made absolute by $ORIGIN
end_marker_name(end_index, zone) ==
    << "n" >> \o Fmt04d(end_index) \o << ".", "e", "n", "d", "." >>
    \o RStrip(zone, ".") \o << "." >>

\* DNS canonical name order (RFC 4034, 6.1): labels are compared from the one
\* nearest the root, as lower-case strings; a name that runs out of labels
\* sorts first.
Reverse(s) == [ k \in 1..Len(s) |-> s[Len(s) + 1 - k] ]

RECURSIVE LabelsLess(_, _)
LabelsLess(x, y) ==
    IF y = << >> THEN FALSE
    ELSE IF x = << >> THEN TRUE
    ELSE IF Head(x) = Head(y) THEN LabelsLess(Tail(x), Tail(y))
    ELSE StrLess(Head(x), Head(y))

\* the labels of a name given as text, the one nearest the root first
CanonicalLabels(name) ==
    LET t == Lower(name)
        r == IF Len(t) > 0 /\ t[Len(t)] = "." THEN SubSeq(t, 1, Len(t) - 1) ELSE t
    IN  Reverse(Split(r, "."))

CanonicalLess(a, b) == LabelsLess(CanonicalLabels(a), CanonicalLabels(b))

\* --------------------------------------------------------------- chunks
\* the filler byte b'_'
Filler == 95
\* the default max_label_len of split_into_labels
MaxLabelLen == 63

\* str.encode('utf-8') of one code point below 0x800
Utf8Char(cp) ==
    IF cp < 128 THEN << cp >> ELSE << 192 + (cp \div 64), 128 + (cp % 64) >>

\* the encodings of the characters in their order (computed by halves)
RECURSIVE utf8_encode(_)
utf8_encode(text) ==
    IF text = << >> THEN << >>
    ELSE IF Len(text) = 1 THEN Utf8Char(text[1])
    ELSE LET half == Len(text) \div 2
         IN  utf8_encode(SubSeq(text, 1, half))
             \o utf8_encode(SubSeq(text, half + 1, Len(text)))

\* U+FFFD
ReplacementChar == 65533

\* bytes.decode('utf-8', errors='replace') on bytes below 0xE0 (on valid
\* input the same as bytes.decode('utf-8')): an ASCII byte, a two-byte
\* sequence, or U+FFFD for a byte that starts no valid sequence
RECURSIVE utf8_decode(_)
utf8_decode(bytes) ==
    IF bytes = << >> THEN << >>
    ELSE LET b == Head(bytes)
         IN  IF b < 128 THEN << b >> \o utf8_decode(Tail(bytes))
             ELSE IF /\ b >= 194 /\ b <= 223 /\ Len(bytes) >= 2
                     /\ bytes[2] >= 128 /\ bytes[2] <= 191
             THEN << (b - 192) * 64 + (bytes[2] - 128) >>
                  \o utf8_decode(Tail(Tail(bytes)))
             ELSE << ReplacementChar >> \o utf8_decode(Tail(bytes))

\* the loop of chunk_message: windows of chunk_size, the last one padded
\* (one window per element of range(0, len(message), chunk_size))
ChunkWindows(message, chunk_size) ==
    LET starts == { k \in 0..(Len(message) - 1) : k % chunk_size = 0 }
    IN  [ n \in 1..Cardinality(starts) |->
            LET i     == (n - 1) * chunk_size
                chunk == SubSeq(message, i + 1,
                                IF i + chunk_size < Len(message)
                                THEN i + chunk_size ELSE Len(message))
            IN  IF Len(chunk) < chunk_size
                THEN chunk \o Repeat(Filler, chunk_size - Len(chunk))
                ELSE chunk ]

\* chunk_message without its "at least one chunk" fallback
chunk_message_NoFallback(message, chunk_size) == ChunkWindows(message, chunk_size)

\* encoder.py: chunk_message
chunk_message(message, chunk_size) ==
    LET chunks == ChunkWindows(message, chunk_size)
    IN  IF chunks = << >> THEN << Repeat(Filler, chunk_size) >> ELSE chunks

\* auth/generate_zone.py: chunk_message
auth_chunk_message(message, chunk_size) == ChunkWindows(message, chunk_size)

\* split_into_labels that leaves out a last segment shorter than max_label_len
RECURSIVE split_into_labels_DropsTail(_, _)
split_into_labels_DropsTail(text, max_label_len) ==
    IF Len(text) < max_label_len THEN << >>
    ELSE << SubSeq(text, 1, max_label_len) >>
         \o split_into_labels_DropsTail(SubSeq(text, max_label_len + 1, Len(text)),
                                        max_label_len)

\* encoder.py: split_into_labels
RECURSIVE split_into_labels(_, _)
split_into_labels(text, max_label_len) ==
    IF text = << >> THEN << >>
    ELSE IF Len(text) <= max_label_len THEN << text >>
    ELSE << SubSeq(text, 1, max_label_len) >>
         \o split_into_labels(SubSeq(text, max_label_len + 1, Len(text)), max_label_len)

\* strip_padding that removes every filler byte, not only the trailing ones
strip_padding_Everywhere(data) == RemoveChar(data, Filler)

\* decoder.py: strip_padding
strip_padding(data) == RStrip(data, Filler)

\* str.replace(t, ''): every occurrence of t, found from the left and not
\* overlapping, is removed from s
RECURSIVE Remove(_, _)
Remove(s, t) ==
    IF Len(s) < Len(t) \/ t = << >> THEN s
    ELSE IF StartsWith(s, t) THEN Remove(SubSeq(s, Len(t) + 1, Len(s)), t)
    ELSE << Head(s) >> \o Remove(Tail(s), t)

\* the payload part of a node's name: the encoded chunk as dotted labels
payload_part(chunk) == Join(split_into_labels(encode_chunk(chunk), MaxLabelLen), ".")

\* auth/generate_zone.py: generate_node_name (the full name)
generate_node_name(index, chunk, zone) ==
    << "n" >> \o Fmt04d(index) \o << "." >> \o payload_part(chunk)
    \o << "." >> \o zone \o << "." >>

\* the owner field of a node record as each generator writes it
node_owner(generator, index, chunk, zone) ==
    IF generator = "auth"
    THEN Remove(generate_node_name(index, chunk, zone), << "." >> \o zone \o << "." >>)
    ELSE << "n" >> \o Fmt04d(index) \o << "." >> \o payload_part(chunk)

\* the name an owner field stands for under the file's $ORIGIN {zone}. line
origin_name(owner, zone) ==
    IF EndsWith(owner, << "." >>) THEN owner ELSE owner \o << "." >> \o zone \o << "." >>

\* generate_zone_file of either generator: the owner fields of the payload
\* node records in file order, the names they stand for, the last octet of
\* each record's address, the end marker's name, and the returned node count
generate_zone_file(generator, zone, message, chunk_size) ==
    LET message_bytes == utf8_encode(message)
        chunks == IF generator = "auth"
                  THEN auth_chunk_message(message_bytes, chunk_size)
                  ELSE chunk_message(message_bytes, chunk_size)
    IN  [ owners |-> [ k \in 1..Len(chunks) |-> node_owner(generator, k - 1, chunks[k], zone) ],
          nodes  |-> [ k \in 1..Len(chunks) |->
                         origin_name(node_owner(generator, k - 1, chunks[k], zone), zone) ],
          octets |-> [ k \in 1..Len(chunks) |-> 10 + (k - 1) ],
          end    |-> end_marker_name(Len(chunks), zone),
          count  |-> Len(chunks) ]

\* --------------------------------------------------------------- parser
\* an absent value (None) and a present one
None == << >>
Some(x) == << x >>

\* the longest run of digits int() converts; a longer one raises ValueError
\* (CPython's default limit on str to int conversion)
IntMaxStrDigits == 4300

\* int() of a run of at most IntMaxStrDigits decimal digits
RECURSIVE IntOfDigits(_)
IntOfDigits(digits) ==
    IF digits = << >> THEN 0
    ELSE 10 * IntOfDigits(SubSeq(digits, 1, Len(digits) - 1))
         + (Ord[digits[Len(digits)]] - Ord["0"])

\* the first part of s.split(c), and the other parts joined by c again
\* (c.join(parts[1:])); the other parts are absent when s has no c
FirstPart(s, c) ==
    IF \E k \in 1..Len(s) : s[k] = c
    THEN SubSeq(s, 1, (CHOOSE k \in 1..Len(s) :
                          s[k] = c /\ \A j \in 1..(k - 1) : s[j] # c) - 1)
    ELSE s
OtherParts(s, c) ==
    IF \E k \in 1..Len(s) : s[k] = c
    THEN Some(SubSeq(s, Len(FirstPart(s, c)) + 2, Len(s)))
    ELSE None

\* re.match(r'^n(\d+)$', label)
MatchesIndexLabel(label) ==
    /\ Len(label) >= 2
    /\ label[1] = "n"
    /\ \A k \in 2..Len(label) : label[k] \in Range(DigitChars)

\* what a call gave: a value, or an exception
ReturnedValue(v) == [ kind |-> "returned", value |-> v ]
RaisedError(e) == [ kind |-> "raised", value |-> e ]

\* ordering.py: parse_node_name; parts[0] is FirstPart, '.'.join(parts[1:])
\* is OtherParts, and len(parts) < 2 means there are no other parts
parse_node_name(node_name, zone) ==
    LET z           == RStrip(zone, ".")
        nm          == Lower(RStrip(node_name, "."))
        zone_suffix == << "." >> \o Lower(z)
        prefix      == SubSeq(nm, 1, Len(nm) - Len(zone_suffix))
        first       == FirstPart(prefix, ".")
        payload     == OtherParts(prefix, ".")
    IN  IF ~EndsWith(nm, zone_suffix) THEN ReturnedValue(None)
        ELSE IF payload = None THEN ReturnedValue(None)
        ELSE IF ~MatchesIndexLabel(first) THEN ReturnedValue(None)
        ELSE IF Len(first) - 1 > IntMaxStrDigits THEN RaisedError("ValueError")
        ELSE ReturnedValue(Some(<< IntOfDigits(Tail(first)), payload[1] >>))

\* extract_nsec_from_response that scans the answer section first
extract_nsec_from_response_AnswerFirst(response) ==
    SelectSeq(response.answer, LAMBDA rrset : rrset.rdtype = "NSEC")
    \o SelectSeq(response.authority, LAMBDA rrset : rrset.rdtype = "NSEC")

\* parser.py: extract_nsec_from_response
extract_nsec_from_response(response) ==
    SelectSeq(response.authority, LAMBDA rrset : rrset.rdtype = "NSEC")
    \o SelectSeq(response.answer, LAMBDA rrset : rrset.rdtype = "NSEC")

\* parser.py: extract_next_name; an rrset's rdatas are given by their next
\* names
extract_next_name(nsec_rrset) ==
    IF nsec_rrset.next = << >> THEN None ELSE Some(Head(nsec_rrset.next))

\* parser.py: extract_payload_from_next_name, on next_name.to_text()
extract_payload_from_next_name(next_name, zone) ==
    LET name_str    == Lower(next_name)
        z           == RStrip(Lower(zone), ".")
        stripped    == RStrip(name_str, ".")
        zone_suffix == << "." >> \o z
        prefix      == IF EndsWith(stripped, zone_suffix)
                       THEN SubSeq(stripped, 1, Len(stripped) - Len(zone_suffix))
                       ELSE stripped
        labels      == Split(prefix, ".")
    IN  IF ~EndsWith(stripped, z) THEN None
        ELSE IF ~StartsWith(labels[1], << "n" >>) THEN None
        ELSE IF Len(labels) < 2 THEN None
        ELSE Some(Join(Tail(labels), "."))

\* the first next name among the NSEC rrsets, as the loop of
\* query_and_extract_nsec finds it
RECURSIVE FirstNextName(_)
FirstNextName(nsec_rrsets) ==
    IF nsec_rrsets = << >> THEN None
    ELSE IF extract_next_name(Head(nsec_rrsets)) # None
    THEN extract_next_name(Head(nsec_rrsets))
    ELSE FirstNextName(Tail(nsec_rrsets))

Returned(next_name, response) ==
    [ raised |-> FALSE, next_name |-> next_name, response |-> response ]
Raised == [ raised |-> TRUE, next_name |-> None, response |-> None ]

\* the except clause for NXDOMAIN: response = e.response(), then the search
\* for a next name.  NXDOMAIN.response of dnspython takes the query name
\* (response(qname)); called without it the call raises TypeError, inside
\* the handler, where the except clauses that follow do not apply.
\* dnspython is not part of the source tree: reply.response_call says whether
\* the call returned the response, as the handler expects, or raised.
nxdomain_handler(reply) ==
    IF reply.response_call = "raises" THEN Raised
    ELSE Returned(FirstNextName(extract_nsec_from_response(reply.response)),
                  Some(reply.response))

\* query_and_extract_nsec that takes the next name from a positive answer too
query_and_extract_nsec_FromAnswer(reply) ==
    CASE reply.kind = "answer" ->
            Returned(FirstNextName(extract_nsec_from_response(reply.response)),
                     Some(reply.response))
      [] reply.kind = "NXDOMAIN" -> nxdomain_handler(reply)
      [] reply.kind = "NoAnswer" -> Returned(None, Some(reply.response))
      [] OTHER                   -> Returned(None, None)

\* parser.py: query_and_extract_nsec, by what resolver.resolve does: it
\* returns an answer, or raises NXDOMAIN, NoAnswer or another exception
\* (a timeout among them)
query_and_extract_nsec(reply) ==
    CASE reply.kind = "answer"   -> Returned(None, None)
      [] reply.kind = "NXDOMAIN" -> nxdomain_handler(reply)
      [] reply.kind = "NoAnswer" -> Returned(None, Some(reply.response))
      [] OTHER                   -> Returned(None, None)

\* a detail record whose success flag is never set
probe_detail_NeverSuccess(r, index, zone, got) ==
    LET payload == IF got.next_name = None THEN None
                   ELSE extract_payload_from_next_name(got.next_name[1], zone)
    IN  [ index     |-> index,
          query     |-> gap_name(r, index, zone),
          success   |-> FALSE,
          next_name |-> got.next_name,
          payload   |-> IF payload # None /\ payload[1] # << >> THEN payload ELSE None ]

\* the detail record one pass of the loop of prime_nsec_chain and
\* verify_synthesis appends ('synthesized' is always equal to 'success')
probe_detail(r, index, zone, got) ==
    LET payload == IF got.next_name = None THEN None
                   ELSE extract_payload_from_next_name(got.next_name[1], zone)
    IN  [ index     |-> index,
          query     |-> gap_name(r, index, zone),
          success   |-> got.next_name # None,
          next_name |-> got.next_name,
          payload   |-> IF payload # None /\ payload[1] # << >> THEN payload ELSE None ]

\* the chunks whose decoding does not fail, decoded and concatenated
RECURSIVE DecodedChunks(_)
DecodedChunks(chunks) ==
    IF chunks = << >> THEN << >>
    ELSE LET d == decode_labels(Head(chunks))
         IN  (IF d.ok THEN d.bytes ELSE << >>) \o DecodedChunks(Tail(chunks))

\* decoder.py: decode_payload_chunks; the ValueError of a chunk that does not
\* decode leaves the function
decode_payload_chunks(encoded_chunks) ==
    IF \E k \in 1..Len(encoded_chunks) : ~decode_labels(encoded_chunks[k]).ok
    THEN Failure
    ELSE Success(strip_padding(DecodedChunks(encoded_chunks)))

\* the chunks before the first one whose decoding fails, decoded and
\* concatenated
RECURSIVE DecodedUntilFailure(_)
DecodedUntilFailure(chunks) ==
    IF chunks = << >> THEN << >>
    ELSE LET d == decode_labels(Head(chunks))
         IN  IF d.ok THEN d.bytes \o DecodedUntilFailure(Tail(chunks)) ELSE << >>

\* decode_payload with the try around the whole loop: decoding ends at the
\* first chunk that fails
decode_payload_StopsAtFailure(chunks) ==
    utf8_decode(strip_padding(DecodedUntilFailure(chunks)))

\* prime.py, verify_synthesis.py: decode_payload
decode_payload(chunks) == utf8_decode(strip_padding(DecodedChunks(chunks)))

\* ------------------------------------------------------------------ state
VARIABLES
    cpc,        \* codec run: "idle", "start", "encoded", "decoded"
    chunk,      \* the bytes handed to encode_chunk
    encoded,    \* encode_chunk's result
    decoded,    \* decode_labels' result
    opc,        \* name run: "idle", "start", "interval", "gaps", "picked",
                \* "nodes", "compared"
    oin,        \* the arguments the names of a name run were made from
    name,       \* is_name_between's name; the first gap name of a pair
    lower,      \* is_name_between's lower; the second gap name of a pair
    upper,      \* is_name_between's upper
    between,    \* is_name_between's result
    wpc,        \* demo run: "idle", "start", "zone", "walking", "finished",
                \* "aborted" (an exception left the walk)
    generator,  \* "auth" (auth/generate_zone.py) or "client"
                \* (client/scripts/generate_zone.py)
    message,    \* the message, as code points
    chunk_size,
    zone_file,  \* what generate_zone_file wrote and returned
    num_nodes,  \* the walkers' num_nodes
    run,        \* the role of the walk under way
    verify_runs,      \* verification runs started so far
    i,                \* the walk's loop index
    payload_chunks,
    query_details,
    synthesis_count,
    decoded_payload,  \* main's decoded_payload
    last_reply,       \* what the resolver did with the latest probe
    issued,           \* every name queried so far, in order
    auth_log,         \* the 'query:' lines in the authoritative server's log
    auth_queries_before,  \* auth_queries_before of verify_synthesis.py's main
    verify_results,   \* the results file of verify_synthesis.py, if written
                      \* (its counts after the walk, delta and verdict)
    exit_code,        \* the script that ended last and its exit code
    kpc,        \* chunking run: "idle", "start", "called"
    kin,        \* the function called and its arguments
    kout,       \* what the call returned
    ppc,        \* parsing run: "idle", "start", "called"
    pin,        \* the function called and its arguments
    pout        \* what the call returned

codecVars == << cpc, chunk, encoded, decoded >>
orderingVars == << opc, oin, name, lower, upper, between >>
walkVars == << wpc, generator, message, chunk_size, zone_file, num_nodes, run,
               verify_runs, i, payload_chunks, query_details, synthesis_count,
               decoded_payload, last_reply, issued, auth_log,
               auth_queries_before, verify_results, exit_code >>
chunkVars == << kpc, kin, kout >>
parseVars == << ppc, pin, pout >>
vars == << codecVars, orderingVars, walkVars, chunkVars, parseVars >>

IdleCodec ==
    /\ cpc = "idle"
    /\ chunk = << >>
    /\ encoded = << >>
    /\ decoded = Failure

NoArgs == [ kind |-> "none" ]

IdleOrdering ==
    /\ opc = "idle"
    /\ oin = NoArgs
    /\ name = << >>
    /\ lower = << >>
    /\ upper = << >>
    /\ between = FALSE

NoZone == [ owners |-> << >>, nodes |-> << >>, octets |-> << >>, end |-> << >>, count |-> 0 ]
NoRun == [ role |-> "none", variant |-> 0 ]
NoReply == [ kind |-> "none", response |-> None, response_call |-> "none" ]
NoExit == [ script |-> "none", code |-> 0 ]

IdleWalk ==
    /\ wpc = "idle"
    /\ generator = "client"
    /\ message = << >>
    /\ chunk_size = 1
    /\ zone_file = NoZone
    /\ num_nodes = 0
    /\ run = NoRun
    /\ verify_runs = 0
    /\ i = 0
    /\ payload_chunks = << >>
    /\ query_details = << >>
    /\ synthesis_count = 0
    /\ decoded_payload = << >>
    /\ last_reply = NoReply
    /\ issued = << >>
    /\ auth_log = 0
    /\ auth_queries_before = 0
    /\ verify_results = None
    /\ exit_code = NoExit

NoResult == [ kind |-> "none" ]

IdleChunks ==
    /\ kpc = "idle"
    /\ kin = NoArgs
    /\ kout = NoResult

IdleParse ==
    /\ ppc = "idle"
    /\ pin = NoArgs
    /\ pout = NoResult

\* ------------------------------------------------------------ codec runs
\* 0x00, '_', 'h', 0xff
ByteSample == { 0, 95, 104, 255 }

InitCodec ==
    /\ cpc = "start"
    /\ chunk \in SeqsUpTo(ByteSample, MaxBytes)
    /\ encoded = << >>
    /\ decoded = Failure
    /\ IdleOrdering
    /\ IdleWalk
    /\ IdleChunks
    /\ IdleParse

Encode ==
    /\ cpc = "start"
    /\ encoded' = encode_chunk(chunk)
    /\ cpc' = "encoded"
    /\ UNCHANGED << chunk, decoded, orderingVars, walkVars,
                    chunkVars, parseVars >>

Decode ==
    /\ cpc = "encoded"
    /\ decoded' = decode_labels(encoded)
    /\ cpc' = "decoded"
    /\ UNCHANGED << chunk, encoded, orderingVars, walkVars,
                    chunkVars, parseVars >>

NextCodec == Encode \/ Decode

SpecCodec == InitCodec /\ [][NextCodec]_vars

\* C1: every byte string, the empty one included, is recovered by decoding
\* its encoding: decode_labels(encode_chunk(b)) = b.
RoundTrip == cpc = "decoded" => (decoded.ok /\ decoded.bytes = chunk)

\* a string whose encoding needed padding has made the round trip
RoundTripWitness ==
    /\ cpc = "decoded"
    /\ Len(chunk) = 6
    /\ decoded = Success(chunk)
    /\ Len(encoded) = 10
\* the characters a-z and 2-7
DnsBase32Chars == Range(LowerChars) \cup { "2", "3", "4", "5", "6", "7" }

\* C21: encode_chunk(b) has only characters of a-z and 2-7, no '=' and no
\* upper case, and is empty exactly when b is empty.
EncodedAlphabet ==
    cpc \in { "encoded", "decoded" } =>
        /\ \A k \in 1..Len(encoded) : encoded[k] \in DnsBase32Chars
        /\ (encoded = << >>) <=> (chunk = << >>)

\* one byte has been encoded in two characters, where b32encode pads with
\* six '='
EncodedAlphabetWitness ==
    /\ cpc = "encoded"
    /\ chunk = << 255 >>
    /\ encoded = << "7", "4" >>

\* ------------------------------------------------------------- name runs
Zone == << "z", "o", "n", "e", ".", "t", "e", "s", "t" >>

\* the zone as the scripts get it, and with the root dot
ZoneSample == { Zone, Zone \o << "." >> }

\* indices up to MaxSmallIndex and those around the first index that needs
\* more than PadWidth digits
IndexSample ==
    (0..MaxSmallIndex) \cup { 10 ^ PadWidth - 2, 10 ^ PadWidth - 1, 10 ^ PadWidth }

\* payload texts: the encodings of some chunks ("aa", "nbuq", "z77q")
PayloadSample == { encode_chunk(c) : c \in { << 0 >>, << 104, 105 >>, << 207, 255 >> } }

\* some names of the scheme in one zone
NameSample(zone) ==
    { node_name_for_index(x, p, zone, TRUE) : x \in 0..MaxSmallIndex, p \in PayloadSample }
    \cup { end_marker_name(x + 1, zone) : x \in 0..MaxSmallIndex }
    \cup { in_gap_name(x, zone, s, TRUE) : x \in 0..MaxSmallIndex, s \in { "z", "m", "b" } }

InitOrdering ==
    /\ opc = "start"
    /\ oin = NoArgs
    /\ name = << >>
    /\ lower = << >>
    /\ upper = << >>
    /\ between = FALSE
    /\ IdleCodec
    /\ IdleWalk
    /\ IdleChunks
    /\ IdleParse

\* node index, the in-gap name of index, node index + 1
MakeInterval ==
    /\ opc = "start"
    /\ \E index \in IndexSample, p \in PayloadSample, q \in PayloadSample,
          zone \in ZoneSample, r \in Roles :
          /\ oin' = [ kind |-> "interval", index |-> index, payload |-> p,
                      next_payload |-> q, zone |-> zone, role |-> r ]
          /\ lower' = node_name_for_index(index, p, zone, TRUE)
          /\ name' = gap_name(r, index, zone)
          /\ upper' = node_name_for_index(index + 1, q, zone, TRUE)
    /\ opc' = "interval"
    /\ UNCHANGED << between, codecVars, walkVars,
                    chunkVars, parseVars >>

\* two in-gap names of one zone
MakeGapPair ==
    /\ opc = "start"
    /\ \E i1 \in IndexSample, i2 \in IndexSample, r1 \in Roles, r2 \in Roles,
          zone \in ZoneSample :
          /\ oin' = [ kind |-> "gaps", a |-> << i1, r1 >>, b |-> << i2, r2 >>,
                      zone |-> zone ]
          /\ name' = gap_name(r1, i1, zone)
          /\ lower' = gap_name(r2, i2, zone)
    /\ opc' = "gaps"
    /\ UNCHANGED << upper, between, codecVars, walkVars,
                    chunkVars, parseVars >>

\* any three names of the scheme
PickNames ==
    /\ opc = "start"
    /\ \E n \in NameSample(Zone), l \in NameSample(Zone), u \in NameSample(Zone) :
          /\ name' = n
          /\ lower' = l
          /\ upper' = u
    /\ oin' = [ kind |-> "picked" ]
    /\ opc' = "picked"
    /\ UNCHANGED << between, codecVars, walkVars,
                    chunkVars, parseVars >>

Compare ==
    /\ opc \in { "interval", "picked" }
    /\ between' = is_name_between(name, lower, upper)
    /\ opc' = "compared"
    /\ UNCHANGED << oin, name, lower, upper, codecVars, walkVars,
                    chunkVars, parseVars >>

\* the node names of two indices, the smaller index first
MakeNodePair ==
    /\ opc = "start"
    /\ \E i1 \in IndexSample, i2 \in IndexSample, p \in PayloadSample,
          q \in PayloadSample, zone \in ZoneSample :
          /\ i1 < i2
          /\ oin' = [ kind |-> "nodes", index |-> i1, next_index |-> i2,
                      payload |-> p, next_payload |-> q, zone |-> zone ]
          /\ lower' = node_name_for_index(i1, p, zone, TRUE)
          /\ upper' = node_name_for_index(i2, q, zone, TRUE)
    /\ opc' = "nodes"
    /\ UNCHANGED << name, between, codecVars, walkVars,
                    chunkVars, parseVars >>

NextOrdering == MakeInterval \/ MakeGapPair \/ PickNames \/ Compare \/ MakeNodePair

SpecOrdering == InitOrdering /\ [][NextOrdering]_vars

CanonicalBetween == CanonicalLess(lower, name) /\ CanonicalLess(name, upper)

\* C3: on names of the scheme, is_name_between is true exactly when
\* lower < name < upper in DNS canonical name order.
BetweenIsCanonical == opc = "compared" => (between <=> CanonicalBetween)

\* C4: the in-gap name of index i sorts strictly after node i and strictly
\* before node i + 1 in DNS canonical name order, whatever the payloads.
GapInCanonicalInterval ==
    (opc = "compared" /\ oin.kind = "interval") => CanonicalBetween

\* C5: for every index i, is_name_between holds of each of the 11 in-gap
\* names of i between node i and node i + 1.
GapBetweenNodes ==
    (opc = "compared" /\ oin.kind = "interval") => between

\* C20: the node name of a smaller index sorts strictly before the node name
\* of a larger index in case-insensitive string order, whatever the payloads.
NodesSortByIndex == opc = "nodes" => StrLess(Lower(lower), Lower(upper))

\* a name as given, in upper case, without its trailing dot, and with one
\* more trailing dot
Respelled(s) == { s, Upper(s), RStrip(s, "."), s \o << "." >> }

\* a name in lower case without trailing dots
Normalized(s) == RStrip(Lower(s), ".")

\* C22: is_name_between gives the same result however its arguments are
\* cased and dotted at the end, and is false when the name equals a bound
\* or lies outside the bounds.
BetweenIsStrict ==
    opc = "compared" =>
        /\ \A n \in Respelled(name), l \in Respelled(lower), u \in Respelled(upper) :
              is_name_between(n, l, u) = between
        /\ between =>
              /\ Normalized(name) # Normalized(lower)
              /\ Normalized(name) # Normalized(upper)
              /\ ~StrLess(Normalized(name), Normalized(lower))
              /\ ~StrLess(Normalized(upper), Normalized(name))

\* a name that equals its lower bound and sorts before its upper bound has
\* been compared
BetweenIsStrictWitness ==
    /\ opc = "compared"
    /\ name = lower
    /\ StrLess(Normalized(name), Normalized(upper))
    /\ ~between

\* C6: in one zone, in-gap names of different (index, suffix) pairs differ:
\* 11 names per index, none shared between indices or between priming and
\* verification.
GapNamesDistinct ==
    (opc = "gaps" /\ oin.a # oin.b) => name # lower

\* two different suffixes of one index, and a priming and a verification
\* name of two indices, have been generated
GapNamesDistinctWitness ==
    /\ opc = "gaps"
    /\ oin.a # oin.b
    /\ oin.a[1] = oin.b[1]
    /\ oin.a[2].role = "prime"
    /\ oin.b[2] = [ role |-> "verify", variant |-> 0 ]
    /\ name # lower
\* ------------------------------------------------------------- demo runs
\* 'A', '_', U+00E9 (two bytes in UTF-8)
CodePointSample == { 65, 95, 233 }

Apex == Zone \o << "." >>

\* the name after node index in the chain ordered by index
NextInChain(index) ==
    IF index + 1 < zone_file.count THEN zone_file.nodes[index + 2] ELSE zone_file.end

SoaRRset == [ rdtype |-> "SOA", name |-> Apex, next |-> << >> ]
ARRset(owner) == [ rdtype |-> "A", name |-> owner, next |-> << >> ]
NsecRRset(owner, next) == [ rdtype |-> "NSEC", name |-> owner, next |-> << next >> ]

\* the NSEC record of the interval from node index to the next node
ChainNsec(index) == NsecRRset(zone_file.nodes[index + 1], NextInChain(index))

\* the two outcomes of e.response() in the except clause for NXDOMAIN
ResponseCalls == { "returns", "raises" }

\* NXDOMAIN with the given authority section
NxDomainReply(authority, call) ==
    [ kind |-> "NXDOMAIN",
      response |-> [ authority |-> authority, answer |-> << >> ],
      response_call |-> call ]

ChainReply(index, call) == NxDomainReply(<< SoaRRset, ChainNsec(index) >>, call)

NoAnswerReply ==
    [ kind |-> "NoAnswer",
      response |-> [ authority |-> << SoaRRset >>, answer |-> << >> ],
      response_call |-> "returns" ]

ErrorReply == [ kind |-> "error", response |-> None, response_call |-> "none" ]

\* what the resolver may do with the probe of an index
Replies(r, index) ==
    { ChainReply(index, call) : call \in ResponseCalls }
    \* NXDOMAIN, the proof being the interval that ends at the apex
    \cup { NxDomainReply(<< SoaRRset, NsecRRset(zone_file.end, Apex) >>, call) :
              call \in ResponseCalls }
    \* NXDOMAIN without any NSEC record
    \cup { NxDomainReply(<< SoaRRset >>, call) : call \in ResponseCalls }
    \cup { NoAnswerReply,
           \* the name resolves (a wildcard answer carries an NSEC record too)
           [ kind |-> "answer",
             response |-> [ authority |-> << ChainNsec(index) >>,
                            answer |-> << ARRset(gap_name(r, index, Zone)) >> ],
             response_call |-> "none" ],
           \* a timeout or any other exception of the query
           ErrorReply }

InitWalk ==
    /\ wpc = "start"
    /\ generator \in { "auth", "client" }
    /\ message \in SeqsUpTo(CodePointSample, MaxMsgLen)
    /\ chunk_size \in 1..MaxChunkSize
    /\ zone_file = NoZone
    /\ num_nodes = 0
    /\ run = NoRun
    /\ verify_runs = 0
    /\ i = 0
    /\ payload_chunks = << >>
    /\ query_details = << >>
    /\ synthesis_count = 0
    /\ decoded_payload = << >>
    /\ last_reply = NoReply
    /\ issued = << >>
    /\ auth_log = 0
    /\ auth_queries_before = 0
    /\ verify_results = None
    /\ exit_code = NoExit
    /\ IdleCodec
    /\ IdleOrdering
    /\ IdleChunks
    /\ IdleParse

\* verify_synthesis.py, prime.py: count_auth_queries; a log that is missing
\* or cannot be read counts as 0
count_auth_queries(readable, query_lines) == IF readable THEN query_lines ELSE 0

\* a verdict that also asks for a proof from every probe
verify_verdict_NeedsProofs(delta, synthesis, nodes) ==
    IF delta = 0 /\ synthesis = nodes THEN "SUCCESS" ELSE "FAILED"

\* verify_synthesis.py: main (the verdict)
verify_verdict(delta, synthesis, nodes) ==
    IF delta = 0 THEN "SUCCESS" ELSE "FAILED"

\* verify_synthesis.py: main (the value returned to sys.exit)
verify_exit_code(delta) == IF delta = 0 THEN 0 ELSE 1

\* report.py: main (the value returned to sys.exit)
report_exit_code(results) ==
    IF results # None /\ results[1].delta = 0 THEN 0 ELSE 1

\* the script whose main runs the walk of a role
ScriptOf(r) == IF r.role = "verify" THEN "verify_synthesis" ELSE "prime"

\* generate_zone.py: main; the walkers read the node count it leaves
GenerateZone ==
    /\ wpc = "start"
    /\ zone_file' = generate_zone_file(generator, Zone, message, chunk_size)
    /\ num_nodes' = zone_file'.count
    /\ wpc' = "zone"
    /\ UNCHANGED << generator, message, chunk_size, run, verify_runs, i,
                    payload_chunks, query_details, synthesis_count,
                    decoded_payload, last_reply, issued, auth_log,
                    auth_queries_before, verify_results, exit_code,
                    codecVars, orderingVars, chunkVars, parseVars >>

\* main up to the call of the walk
StartWalk(r) ==
    /\ run' = r
    /\ i' = 0
    /\ payload_chunks' = << >>
    /\ query_details' = << >>
    /\ synthesis_count' = 0
    /\ decoded_payload' = << >>
    /\ last_reply' = NoReply
    /\ exit_code' = NoExit
    /\ wpc' = "walking"
    /\ UNCHANGED << generator, message, chunk_size, zone_file, num_nodes, issued,
                    auth_log, verify_results, codecVars, orderingVars,
                    chunkVars, parseVars >>

\* prime.py: main calls prime_nsec_chain
StartPrime ==
    /\ wpc = "zone"
    /\ StartWalk([ role |-> "prime", variant |-> 0 ])
    /\ UNCHANGED << verify_runs, auth_queries_before >>

\* verify_synthesis.py: main calls verify_synthesis
StartVerify ==
    /\ wpc = "finished"
    /\ verify_runs < MaxVerifyRuns
    /\ StartWalk([ role |-> "verify", variant |-> 0 ])
    /\ \E readable \in BOOLEAN :
          auth_queries_before' = count_auth_queries(readable, auth_log)
    /\ verify_runs' = verify_runs + 1

\* a pass of the loop that puts the new payload chunk in front of the list
Probe_Prepends ==
    /\ wpc = "walking"
    /\ i < num_nodes
    /\ \E reply \in Replies(run, i) :
          LET got    == query_and_extract_nsec(reply)
              detail == probe_detail(run, i, Zone, got)
          IN  /\ last_reply' = reply
              /\ issued' = Append(issued, gap_name(run, i, Zone))
              /\ IF got.raised
                 THEN /\ wpc' = "aborted"
                      /\ exit_code' = [ script |-> ScriptOf(run), code |-> 1 ]
                      /\ UNCHANGED << i, payload_chunks, query_details, synthesis_count >>
                 ELSE /\ exit_code' = exit_code
                      /\ query_details' = Append(query_details, detail)
                      /\ payload_chunks' =
                            IF detail.payload # None
                            THEN << detail.payload[1] >> \o payload_chunks
                            ELSE payload_chunks
                      /\ synthesis_count' =
                            IF run.role = "verify" /\ detail.success
                            THEN synthesis_count + 1 ELSE synthesis_count
                      /\ i' = i + 1
                      /\ wpc' = "walking"
    /\ UNCHANGED << generator, message, chunk_size, zone_file, num_nodes, run,
                    verify_runs, decoded_payload, auth_log, auth_queries_before,
                    verify_results, codecVars, orderingVars,
                    chunkVars, parseVars >>

\* one pass of the loop of prime_nsec_chain / verify_synthesis
Probe ==
    /\ wpc = "walking"
    /\ i < num_nodes
    /\ \E reply \in Replies(run, i) :
          LET got    == query_and_extract_nsec(reply)
              detail == probe_detail(run, i, Zone, got)
          IN  /\ last_reply' = reply
              /\ issued' = Append(issued, gap_name(run, i, Zone))
              /\ IF got.raised
                 THEN /\ wpc' = "aborted"
                      /\ exit_code' = [ script |-> ScriptOf(run), code |-> 1 ]
                      /\ UNCHANGED << i, payload_chunks, query_details, synthesis_count >>
                 ELSE /\ exit_code' = exit_code
                      /\ query_details' = Append(query_details, detail)
                      /\ payload_chunks' =
                            IF detail.payload # None
                            THEN Append(payload_chunks, detail.payload[1])
                            ELSE payload_chunks
                      /\ synthesis_count' =
                            IF run.role = "verify" /\ detail.success
                            THEN synthesis_count + 1 ELSE synthesis_count
                      /\ i' = i + 1
                      /\ wpc' = "walking"
    /\ UNCHANGED << generator, message, chunk_size, zone_file, num_nodes, run,
                    verify_runs, decoded_payload, auth_log, auth_queries_before,
                    verify_results, codecVars, orderingVars,
                    chunkVars, parseVars >>

\* the loop ends; main counts the log again, decodes what was collected,
\* and verify_synthesis.py writes its results and verdict
Finish ==
    /\ wpc = "walking"
    /\ i = num_nodes
    /\ decoded_payload' =
          IF payload_chunks # << >> THEN decode_payload(payload_chunks) ELSE << >>
    /\ \E readable \in BOOLEAN :
          LET auth_queries_after == count_auth_queries(readable, auth_log)
              delta == auth_queries_after - auth_queries_before
          IN  IF run.role = "verify"
              THEN /\ verify_results' =
                         Some([ auth_queries_after |-> auth_queries_after,
                                delta   |-> delta,
                                verdict |-> verify_verdict(delta, synthesis_count, num_nodes) ])
                   /\ exit_code' = [ script |-> "verify_synthesis",
                                     code |-> verify_exit_code(delta) ]
              ELSE /\ verify_results' = verify_results
                   /\ exit_code' = [ script |-> "prime", code |-> 0 ]
    /\ wpc' = "finished"
    /\ UNCHANGED << generator, message, chunk_size, zone_file, num_nodes, run,
                    verify_runs, i, payload_chunks, query_details, synthesis_count,
                    last_reply, issued, auth_log, auth_queries_before,
                    codecVars, orderingVars, chunkVars, parseVars >>

\* report.py: main, run after a walker has ended
Report ==
    /\ wpc \in { "finished", "aborted" }
    /\ exit_code.script # "report"
    /\ exit_code' = [ script |-> "report", code |-> report_exit_code(verify_results) ]
    /\ UNCHANGED << wpc, generator, message, chunk_size, zone_file, num_nodes, run,
                    verify_runs, i, payload_chunks, query_details, synthesis_count,
                    decoded_payload, last_reply, issued, auth_log,
                    auth_queries_before, verify_results,
                    codecVars, orderingVars, chunkVars, parseVars >>

NextWalk == GenerateZone \/ StartPrime \/ StartVerify \/ Probe \/ Finish \/ Report

SpecWalk == InitWalk /\ [][NextWalk]_vars

\* ---------------------------------------- demo runs with a growing log
\* the resolver asks the authoritative server during a walk, and the server
\* writes a 'query:' line to the log count_auth_queries reads
AuthQuery ==
    /\ wpc = "walking"
    /\ auth_log < MaxAuthQueries
    /\ auth_log' = auth_log + 1
    /\ UNCHANGED << wpc, generator, message, chunk_size, zone_file, num_nodes, run,
                    verify_runs, i, payload_chunks, query_details, synthesis_count,
                    decoded_payload, last_reply, issued, auth_queries_before,
                    verify_results, exit_code,
                    codecVars, orderingVars, chunkVars, parseVars >>

InitVerdict ==
    /\ InitWalk
    /\ Len(message) <= MaxVerdictMsgLen

NextVerdict == NextWalk \/ AuthQuery

SpecVerdict == InitVerdict /\ [][NextVerdict]_vars

\* every probe of the walk was answered with the NSEC record of its interval
\* of the chain ordered by index
AllChain ==
    /\ Len(query_details) = zone_file.count
    /\ \A k \in 1..Len(query_details) :
          query_details[k].next_name = Some(NextInChain(k - 1))

\* C2: a walk over all N nodes whose probes are all answered from the
\* index-ordered chain decodes the message the zone was built from.
EndToEnd == (wpc = "finished" /\ AllChain) => decoded_payload = message

\* C7: over a priming run and the verification runs that follow it, no name
\* is queried twice.
NoProbeTwice ==
    \A a \in 1..Len(issued), b \in 1..Len(issued) : a # b => issued[a] # issued[b]

\* the reply holds an NSEC record with a next name
ReplyHasProof(reply) ==
    /\ reply.kind = "NXDOMAIN"
    /\ \E rrset \in Range(reply.response.authority) \cup Range(reply.response.answer) :
          rrset.rdtype = "NSEC" /\ rrset.next # << >>

FailedDetail(d) == ~d.success /\ d.next_name = None /\ d.payload = None

\* runs started before the one under way
EarlierRuns == IF run.role = "verify" THEN verify_runs ELSE 0

WalkTally ==
    /\ wpc # "aborted"
    /\ wpc \in { "walking", "finished" } =>
          /\ i <= num_nodes
          /\ Len(query_details) = i
          /\ Len(issued) = EarlierRuns * num_nodes + i
          /\ \A k \in 1..Len(query_details) : query_details[k].index = k - 1
          /\ (i > 0 /\ ~ReplyHasProof(last_reply)) => FailedDetail(query_details[i])
    /\ wpc = "finished" => i = num_nodes

\* a step of a walk under way is one more probe, counted and recorded, or
\* the end of the loop once all num_nodes indices are done
LoopAdvances ==
    wpc = "walking" =>
        \/ /\ wpc' = "walking"
           /\ i < num_nodes
           /\ i' = i + 1
           /\ Len(query_details') = Len(query_details) + 1
           /\ Len(issued') = Len(issued) + 1
        \/ /\ wpc' = "finished"
           /\ i = num_nodes
           /\ UNCHANGED << i, query_details, issued >>

\* C8: a walk over N nodes ends after exactly N probes and N detail records,
\* one per index 0..N-1, whatever the resolver does with each probe; a probe
\* that brings no NSEC next name is recorded with success false and no next
\* name and no payload, and the walk goes on.
WalkCompletes == []WalkTally /\ [][LoopAdvances]_vars

\* the detail record the latest probe would have left for another reply
DetailFor(reply) == probe_detail(run, i - 1, Zone, query_and_extract_nsec(reply))

PositiveAnswered == last_reply.kind = "answer"

EncodedChunks ==
    { encode_chunk(c) :
        c \in Range(IF generator = "auth"
                    THEN auth_chunk_message(utf8_encode(message), chunk_size)
                    ELSE chunk_message(utf8_encode(message), chunk_size)) }

\* C10: a probe whose NSEC next name is the end marker yields no payload;
\* the payload-chunk list holds encoded payload chunks only.
EndMarkerYieldsNoPayload ==
    /\ \A k \in 1..Len(query_details) :
          query_details[k].next_name = Some(zone_file.end)
              => query_details[k].payload = None
    /\ \A k \in 1..Len(payload_chunks) : payload_chunks[k] \in EncodedChunks

\* C13: a zone generated by either generator has at least one payload node:
\* the returned node count is at least 1 and the end marker's index is at
\* least 1, for the empty message too.
ZoneHasPayloadNode ==
    wpc \notin { "idle", "start" } =>
        /\ zone_file.count >= 1
        /\ Len(zone_file.nodes) >= 1
        /\ zone_file.end # end_marker_name(0, Zone)

\* ---------------------------------------------------------- parsing runs
\* first labels: "n0000", "N0001", "m0000", "n", "n12x"
FirstLabelSample ==
    { << "n" >> \o Fmt04d(0),
      << "N" >> \o Fmt04d(1),
      << "m" >> \o Fmt04d(0),
      << "n" >>,
      << "n", "1", "2", "x" >> }

\* what follows the first label: nothing, ".ab", ".ab.cd", ".end"
RestSample ==
    { << >>,
      << ".", "a", "b" >>,
      << ".", "a", "b", ".", "c", "d" >>,
      << ".", "e", "n", "d" >> }

\* the end of a name: in the zone (absolute, relative, upper case), and not
\* in it (".xzone.test.", ".zone.test.x.", ".other.")
TailSample ==
    { << "." >> \o Zone \o << "." >>,
      << "." >> \o Zone,
      << "." >> \o Upper(Zone) \o << "." >>,
      << ".", "x" >> \o Zone \o << "." >>,
      << "." >> \o Zone \o << ".", "x", "." >>,
      << ".", "o", "t", "h", "e", "r", "." >> }

\* names as a resolver may hand them over: labels before a tail, and the
\* bare tails without their leading dot
ParseNameSample ==
    { f \o r \o t : f \in FirstLabelSample, r \in RestSample, t \in TailSample }
    \cup { Tail(t) : t \in TailSample }

\* the zone as the callers pass it
ParseZoneSample == ZoneSample \cup { Upper(Zone) }

InitParse ==
    /\ ppc = "start"
    /\ pin = NoArgs
    /\ pout = NoResult
    /\ IdleCodec
    /\ IdleOrdering
    /\ IdleWalk
    /\ IdleChunks

\* a call of extract_payload_from_next_name
ExtractPayload ==
    /\ ppc = "start"
    /\ \E nm \in ParseNameSample, zone \in ParseZoneSample :
          /\ pin' = [ kind |-> "extract_payload_from_next_name",
                      name |-> nm, zone |-> zone ]
          /\ pout' = ReturnedValue(extract_payload_from_next_name(nm, zone))
    /\ ppc' = "called"
    /\ UNCHANGED << codecVars, orderingVars, walkVars, chunkVars >>

\* payload texts in lower case: one label, two labels, a label of digits,
\* the empty text
ParsePayloadSample ==
    PayloadSample
    \cup { << "a", "b", ".", "c", "d" >>, << "2", "3" >>, << >> }

\* a node name is made and parsed back
ParseMadeName ==
    /\ ppc = "start"
    /\ \E index \in IndexSample, p \in ParsePayloadSample, zone \in ParseZoneSample :
          LET made == node_name_for_index(index, p, zone, TRUE)
          IN  /\ pin' = [ kind |-> "node_name_for_index", index |-> index,
                          payload |-> p, zone |-> zone, name |-> made ]
              /\ pout' = parse_node_name(made, zone)
    /\ ppc' = "called"
    /\ UNCHANGED << codecVars, orderingVars, walkVars, chunkVars >>

\* a name whose first label is 'n' and one digit more than int() converts
LongIndexName ==
    << "n" >> \o Repeat("1", IntMaxStrDigits + 1) \o << ".", "a", "b", "." >> \o Zone

\* a call of parse_node_name
ParseNodeName ==
    /\ ppc = "start"
    /\ \E nm \in ParseNameSample \cup { LongIndexName }, zone \in ParseZoneSample :
          /\ pin' = [ kind |-> "parse_node_name", name |-> nm, zone |-> zone ]
          /\ pout' = parse_node_name(nm, zone)
    /\ ppc' = "called"
    /\ UNCHANGED << codecVars, orderingVars, walkVars, chunkVars >>

\* record sets of a response: SOA, two NSEC sets with different next names,
\* an NSEC set without rdata, and an NSEC3 set (its rdata has a 'next' too)
RRsetSample ==
    { [ rdtype |-> "SOA", name |-> Apex, next |-> << >> ],
      [ rdtype |-> "NSEC", name |-> Apex,
        next |-> << node_name_for_index(0, << "a", "a" >>, Zone, TRUE) >> ],
      [ rdtype |-> "NSEC", name |-> node_name_for_index(0, << "a", "a" >>, Zone, TRUE),
        next |-> << node_name_for_index(1, << "m", "y" >>, Zone, TRUE) >> ],
      [ rdtype |-> "NSEC", name |-> Apex, next |-> << >> ],
      [ rdtype |-> "NSEC3", name |-> << "h", "." >> \o Apex, next |-> << << "h" >> >> ] }

\* resolver.resolve raises NXDOMAIN and query_and_extract_nsec handles it
HandleNxDomain ==
    /\ ppc = "start"
    /\ \E authority \in SeqsUpTo(RRsetSample, MaxSectionLen),
          answer \in SeqsUpTo(RRsetSample, MaxSectionLen), call \in ResponseCalls :
          LET reply == [ kind |-> "NXDOMAIN",
                         response |-> [ authority |-> authority, answer |-> answer ],
                         response_call |-> call ]
              got   == query_and_extract_nsec(reply)
          IN  /\ pin' = [ kind |-> "query_and_extract_nsec", reply |-> reply ]
              /\ pout' = IF got.raised THEN RaisedError("TypeError")
                         ELSE ReturnedValue(got.next_name)
    /\ ppc' = "called"
    /\ UNCHANGED << codecVars, orderingVars, walkVars, chunkVars >>

\* the roles and variants of the walks: the priming suffix and the pool of
\* verification suffixes
ProbeRoles ==
    { [ role |-> "prime", variant |-> 0 ] }
    \cup { [ role |-> "verify", variant |-> v ] : v \in 0..(Len(suffixes) - 1) }

\* parse_node_name is called with a probe name
ParseGapName ==
    /\ ppc = "start"
    /\ \E index \in IndexSample, r \in ProbeRoles, zone \in ParseZoneSample :
          /\ pin' = [ kind |-> "parse_gap_name", name |-> gap_name(r, index, zone),
                      zone |-> zone, index |-> index, run |-> r ]
          /\ pout' = parse_node_name(gap_name(r, index, zone), zone)
    /\ ppc' = "called"
    /\ UNCHANGED << codecVars, orderingVars, walkVars, chunkVars >>

NextParse ==
    ExtractPayload \/ ParseMadeName \/ ParseNodeName \/ HandleNxDomain \/ ParseGapName

SpecParse == InitParse /\ [][NextParse]_vars

\* the name, lower-cased and without trailing dots, ends with '.' + zone
InZone(nm, zone) ==
    EndsWith(RStrip(Lower(nm), "."), << "." >> \o RStrip(Lower(zone), "."))

\* C11: extract_payload_from_next_name returns None for every name that,
\* lower-cased and without its trailing dot, does not end with '.' + zone.
PayloadOnlyInZone ==
    (ppc = "called" /\ pin.kind = "extract_payload_from_next_name"
        /\ ~InZone(pin.name, pin.zone))
    => pout.value = None

\* --------------------------------------------------------- chunking runs
\* b''.join(parts)
RECURSIVE Concat(_)
Concat(parts) == IF parts = << >> THEN << >> ELSE Head(parts) \o Concat(Tail(parts))

\* '_', 'h', 0x00
ChunkByteSample == { 95, 104, 0 }

InitChunks ==
    /\ kpc = "start"
    /\ kin = NoArgs
    /\ kout = NoResult
    /\ IdleCodec
    /\ IdleOrdering
    /\ IdleWalk
    /\ IdleParse

\* a call of chunk_message
ChunkMessage ==
    /\ kpc = "start"
    /\ \E m \in SeqsUpTo(ChunkByteSample, MaxChunkedLen), size \in 1..MaxSize :
          /\ kin' = [ kind |-> "chunk_message", message |-> m, chunk_size |-> size ]
          /\ kout' = [ kind |-> "returned", value |-> chunk_message(m, size) ]
    /\ kpc' = "called"
    /\ UNCHANGED << codecVars, orderingVars, walkVars, parseVars >>

\* a message is chunked, the chunks encoded, and decode_payload_chunks called
\* on the encoded chunks
StripChunks ==
    /\ kpc = "start"
    /\ \E m \in SeqsUpTo(ChunkByteSample, MaxChunkedLen), size \in 1..MaxSize :
          LET chunks  == chunk_message(m, size)
              encoded_chunks == [ k \in 1..Len(chunks) |-> encode_chunk(chunks[k]) ]
          IN  /\ kin' = [ kind |-> "decode_payload_chunks", message |-> m,
                          chunk_size |-> size, chunks |-> chunks ]
              /\ kout' = [ kind |-> "returned",
                           value |-> decode_payload_chunks(encoded_chunks) ]
    /\ kpc' = "called"
    /\ UNCHANGED << codecVars, orderingVars, walkVars, parseVars >>

\* characters of the texts that are split
TextCharSample == { "a", "7" }

\* a call of split_into_labels
SplitIntoLabels ==
    /\ kpc = "start"
    /\ \E t \in SeqsUpTo(TextCharSample, MaxTextLen), max_len \in 1..MaxSize :
          /\ kin' = [ kind |-> "split_into_labels", encoded |-> t,
                      max_label_len |-> max_len ]
          /\ kout' = [ kind |-> "returned", value |-> split_into_labels(t, max_len) ]
    /\ kpc' = "called"
    /\ UNCHANGED << codecVars, orderingVars, walkVars, parseVars >>

\* a chunk is encoded and split as generate_zone_file does it, then the
\* dot-joined segments are decoded
DecodeSplitLabels ==
    /\ kpc = "start"
    /\ \E c \in SeqsUpTo(ChunkByteSample, MaxChunkedLen),
          max_len \in (1..MaxSize) \cup { MaxLabelLen } :
          LET labels == split_into_labels(encode_chunk(c), max_len)
              joined == Join(labels, ".")
          IN  /\ kin' = [ kind |-> "decode_split_labels", chunk |-> c,
                          max_label_len |-> max_len, labels |-> joined ]
              /\ kout' = [ kind |-> "returned", value |-> decode_labels(joined) ]
    /\ kpc' = "called"
    /\ UNCHANGED << codecVars, orderingVars, walkVars, parseVars >>

\* characters of the texts that are decoded: base32 characters in either
\* case, a digit that is not one, the pad character, the label separator
LabelCharSample == { "m", "Y", "1", "=", "." }

\* a call of decode_labels
DecodeLabels ==
    /\ kpc = "start"
    /\ \E text \in SeqsUpTo(LabelCharSample, MaxLabelsLen) :
          LET d == decode_labels(text)
          IN  /\ kin' = [ kind |-> "decode_labels", labels |-> text ]
              /\ kout' = IF d.ok THEN ReturnedValue(d.bytes)
                         ELSE RaisedError("ValueError")
    /\ kpc' = "called"
    /\ UNCHANGED << codecVars, orderingVars, walkVars, parseVars >>

\* payload texts as a walk collects them: the encodings of "h", "h_" and
\* "_", the end marker's label, a label with a digit outside base32, the
\* empty text
ChunkTextSample ==
    { encode_chunk(<< 104 >>), encode_chunk(<< 104, Filler >>),
      encode_chunk(<< Filler >>), << "e", "n", "d" >>, << "n", "1" >>, << >> }

\* a call of decode_payload
DecodePayload ==
    /\ kpc = "start"
    /\ \E chunks \in SeqsUpTo(ChunkTextSample, MaxChunkList) :
          /\ kin' = [ kind |-> "decode_payload", chunks |-> chunks ]
          /\ kout' = ReturnedValue(decode_payload(chunks))
    /\ kpc' = "called"
    /\ UNCHANGED << codecVars, orderingVars, walkVars, parseVars >>

\* zones of the zone files generated on their own: the demo's zone and a
\* zone of one label
ZoneFileZoneSample == { Zone, << "i", "e" >> }

\* a message of many one-byte chunks
LongMessage == Repeat(65, ManyChunks)

\* generate_zone_file of either generator, called on its own
GenerateZoneFile ==
    /\ kpc = "start"
    /\ \E g \in { "auth", "client" }, zone \in ZoneFileZoneSample,
          m \in SeqsUpTo(CodePointSample, MaxMsgLen) \cup { LongMessage },
          size \in 1..MaxChunkSize :
          /\ kin' = [ kind |-> "generate_zone_file", generator |-> g, zone |-> zone,
                      message |-> m, chunk_size |-> size ]
          /\ kout' = [ kind |-> "returned", value |-> generate_zone_file(g, zone, m, size) ]
    /\ kpc' = "called"
    /\ UNCHANGED << codecVars, orderingVars, walkVars, parseVars >>

\* prime.py, verify_synthesis.py: main (the node count estimated from the
\* MESSAGE and CHUNK_SIZE of the environment; len counts characters)
estimated_num_nodes(text, size) == (Len(text) + size - 1) \div size

\* main estimates the node count
EstimateNodes ==
    /\ kpc = "start"
    /\ \E m \in SeqsUpTo(CodePointSample, MaxMsgLen), size \in 1..MaxChunkSize :
          /\ kin' = [ kind |-> "estimate", message |-> m, chunk_size |-> size ]
          /\ kout' = [ kind |-> "returned", value |-> estimated_num_nodes(m, size) ]
    /\ kpc' = "called"
    /\ UNCHANGED << codecVars, orderingVars, walkVars, parseVars >>

NextChunks ==
    \/ GenerateZoneFile
    \/ EstimateNodes
    \/ ChunkMessage
    \/ StripChunks
    \/ SplitIntoLabels
    \/ DecodeSplitLabels
    \/ DecodeLabels
    \/ DecodePayload

SpecChunks == InitChunks /\ [][NextChunks]_vars

\* ceil(a / b)
CeilDiv(a, b) == (a + b - 1) \div b

Stripped == kpc = "called" /\ kin.kind = "decode_payload_chunks"

\* the last byte of chunk k is in the output, where it was in the message
EndOfChunkKept(k) ==
    /\ Len(kout.value.bytes) >= k * kin.chunk_size
    /\ kout.value.bytes[k * kin.chunk_size] = kin.chunks[k][kin.chunk_size]

\* C14, as stated: the filler-stripped chunks are m without its trailing '_'
\* bytes, so m itself when m does not end with '_', and a '_' that ends a
\* chunk other than the last is kept.
StripKeepsChunkEnds ==
    Stripped =>
        /\ kout.value = Success(RStrip(kin.message, Filler))
        /\ \A k \in 1..(Len(kin.chunks) - 1) :
              kin.chunks[k][kin.chunk_size] = Filler => EndOfChunkKept(k)

\* a byte other than '_' comes after position n of the message
FollowedByData(n) ==
    \E k \in (n + 1)..Len(kin.message) : kin.message[k] # Filler

\* C14, amended: the filler-stripped chunks are m without its trailing '_'
\* bytes, so m itself when m does not end with '_'; a '_' that ends a chunk
\* other than the last is kept when a byte other than '_' follows it in m,
\* and removed with the rest of m's trailing '_' bytes otherwise.
StripRemovesTrailingFiller ==
    Stripped =>
        /\ kout.value = Success(RStrip(kin.message, Filler))
        /\ (kin.message = << >> \/ kin.message[Len(kin.message)] # Filler)
              => kout.value.bytes = kin.message
        /\ \A k \in 1..(Len(kin.chunks) - 1) :
              kin.chunks[k][kin.chunk_size] = Filler =>
                  (EndOfChunkKept(k) <=> FollowedByData(k * kin.chunk_size))

\* "h_h" in chunks of two bytes: the '_' that ends the first chunk is kept,
\* the filler of the second chunk is removed
StripRemovesTrailingFillerWitness ==
    /\ Stripped
    /\ kin.message = << 104, 95, 104 >>
    /\ kin.chunk_size = 2
    /\ kin.chunks = << << 104, 95 >>, << 104, 95 >> >>
    /\ kout.value = Success(<< 104, 95, 104 >>)

\* C15: the segments of split_into_labels(t, max_len) joined are t; there
\* are ceil(len(t)/max_len) of them (none for the empty text); each has
\* between 1 and max_len characters, and each but the last exactly max_len.
SplitExact ==
    (kpc = "called" /\ kin.kind = "split_into_labels") =>
        LET segments == kout.value
        IN  /\ Concat(segments) = kin.encoded
            /\ Len(segments) = CeilDiv(Len(kin.encoded), kin.max_label_len)
            /\ \A k \in 1..Len(segments) :
                  /\ Len(segments[k]) >= 1
                  /\ Len(segments[k]) <= kin.max_label_len
                  /\ k < Len(segments) => Len(segments[k]) = kin.max_label_len

\* a text of five characters has been split into segments of 2, 2 and 1
SplitExactWitness ==
    /\ kpc = "called"
    /\ kin.kind = "split_into_labels"
    /\ Len(kin.encoded) = 5
    /\ kin.max_label_len = 2
    /\ Len(kout.value) = 3
    /\ Len(kout.value[3]) = 1

\* C16: decoding the dot-joined label segments of a chunk's encoding gives
\* the chunk back, for every maximal label length from 1 on.
SplitRoundTrip ==
    (kpc = "called" /\ kin.kind = "decode_split_labels")
    => kout.value = Success(kin.chunk)

\* four bytes, encoded in seven characters and spread over three labels,
\* have been decoded
SplitRoundTripWitness ==
    /\ kpc = "called"
    /\ kin.kind = "decode_split_labels"
    /\ Len(kin.chunk) = 4
    /\ kin.max_label_len = 3
    /\ Len(kin.labels) = 9
    /\ kout.value = Success(kin.chunk)

\* C17: parse_node_name gives back the index and the payload text a node
\* name was made from, for indices of 10000 and above too.
ParseInvertsMake ==
    (ppc = "called" /\ pin.kind = "node_name_for_index")
    => pout = ReturnedValue(Some(<< pin.index, pin.payload >>))

\* the name of index 10000 with a payload of two labels has been parsed back
ParseInvertsMakeWitness ==
    /\ ppc = "called"
    /\ pin.kind = "node_name_for_index"
    /\ pin.index = 10 ^ PadWidth
    /\ pin.payload = << "a", "b", ".", "c", "d" >>
    /\ pin.zone = Upper(Zone)
    /\ pout = ReturnedValue(Some(<< 10 ^ PadWidth, pin.payload >>))

\* the labels left of '.' + zone in a name of the zone
LabelsInZone(nm, zone) ==
    LET stripped == RStrip(Lower(nm), ".")
    IN  Split(SubSeq(stripped, 1, Len(stripped) - Len(RStrip(zone, ".")) - 1), ".")

\* C18: parse_node_name never raises; it returns None for a name that does
\* not end with '.' + zone, that has fewer than 2 labels left of the zone, or
\* whose first label is not 'n' and one or more digits, and the index with
\* the dot-joined other labels otherwise.
ParseNeverRaises ==
    (ppc = "called" /\ pin.kind = "parse_node_name") =>
        /\ pout.kind = "returned"
        /\ IF ~InZone(pin.name, pin.zone) THEN pout.value = None
           ELSE LET labels == LabelsInZone(pin.name, pin.zone)
                IN  IF Len(labels) < 2 \/ ~MatchesIndexLabel(labels[1])
                    THEN pout.value = None
                    ELSE pout.value = Some(<< IntOfDigits(Tail(labels[1])),
                                              Join(Tail(labels), ".") >>)

\* the text, without dots and in upper case, has a character that is neither
\* of the base32 alphabet nor the pad character, or needs 2, 5 or 7 pad
\* characters to fill its last group of 8
Malformed(text) ==
    LET clean  == Upper(RemoveChar(text, "."))
        padded == clean \o Repeat("=", (8 - (Len(clean) % 8)) % 8)
    IN  \/ \E k \in 1..Len(clean) : clean[k] \notin Range(B32Alphabet) \cup { "=" }
        \/ Len(padded) - Len(RStrip(padded, "=")) \in { 2, 5, 7 }

\* the bytes of the chunks that decode, in their order
BytesOfDecodable(chunks) ==
    LET good == SelectSeq(chunks, LAMBDA c : decode_labels(c).ok)
    IN  Concat([ k \in 1..Len(good) |-> decode_labels(good[k]).bytes ])

\* C19: decode_labels raises on malformed base32 text, and decode_payload
\* returns all the same: it leaves out the chunks that do not decode, joins
\* the bytes of the others in their order and strips the filler.
DecodeSkipsMalformed ==
    /\ (kpc = "called" /\ kin.kind = "decode_labels" /\ Malformed(kin.labels))
          => kout = RaisedError("ValueError")
    /\ (kpc = "called" /\ kin.kind = "decode_payload") =>
          /\ \A k \in 1..Len(kin.chunks) :
                Malformed(kin.chunks[k]) => ~decode_labels(kin.chunks[k]).ok
          /\ kout = ReturnedValue(
                        utf8_decode(RStrip(BytesOfDecodable(kin.chunks), Filler)))

\* "h_", the end marker's label and "h" have been decoded to "h_h": the
\* label that does not decode is left out, the chunks around it are kept
DecodeSkipsMalformedWitness ==
    /\ kpc = "called"
    /\ kin.kind = "decode_payload"
    /\ kin.chunks = << encode_chunk(<< 104, Filler >>), << "e", "n", "d" >>,
                       encode_chunk(<< 104 >>) >>
    /\ kout = ReturnedValue(<< 104, Filler, 104 >>)

\* the NSEC record sets with a next name among the record sets of the
\* authority section followed by those of the answer section
NsecWithNext(response) ==
    SelectSeq(response.authority \o response.answer,
              LAMBDA rrset : rrset.rdtype = "NSEC" /\ rrset.next # << >>)

\* C23: the next name taken from an NXDOMAIN response is that of the first
\* NSEC record set with a next name, the authority section scanned before
\* the answer section; no record set of another type is used, and there is
\* no next name only if no NSEC record set has one.
FirstNsecNextName ==
    (ppc = "called" /\ pin.kind = "query_and_extract_nsec" /\ pout.kind = "returned") =>
        LET candidates == NsecWithNext(pin.reply.response)
        IN  pout.value = IF candidates = << >> THEN None
                         ELSE Some(Head(Head(candidates).next))

\* the authority section holds an NSEC3 set and an NSEC set without rdata,
\* the answer section two NSEC sets: the next name is that of the first NSEC
\* set of the answer section
FirstNsecNextNameWitness ==
    /\ ppc = "called"
    /\ pin.kind = "query_and_extract_nsec"
    /\ pout.kind = "returned"
    /\ Len(pin.reply.response.authority) = 2
    /\ pin.reply.response.authority[1].rdtype = "NSEC3"
    /\ pin.reply.response.authority[2].next = << >>
    /\ Len(pin.reply.response.answer) = 2
    /\ pin.reply.response.answer[1].rdtype = "NSEC"
    /\ pin.reply.response.answer[2].rdtype = "NSEC"
    /\ pin.reply.response.answer[1].next # pin.reply.response.answer[2].next
    /\ pin.reply.response.answer[1].next # << >>
    /\ pout.value = Some(Head(pin.reply.response.answer[1].next))

\* the payloads of the detail records that have one, in the order of the records
PayloadsOf(details) ==
    LET carrying == SelectSeq(details, LAMBDA d : d.payload # None)
    IN  [ k \in 1..Len(carrying) |-> carrying[k].payload[1] ]

\* the probes issued before the walk under way began
IssuedBefore == EarlierRuns * num_nodes

\* C24: in a walk the probes go out one at a time for the indices 0, 1, ...
\* in this order, each one only when every earlier probe has its detail
\* record, and the payload chunks collected are those of the detail records
\* in the order of their probe indices.
ProbesInIndexOrder ==
    wpc \in { "walking", "finished", "aborted" } =>
        /\ Len(issued) - IssuedBefore = IF wpc = "aborted" THEN i + 1 ELSE i
        /\ Len(query_details) = i
        /\ \A k \in 1..(Len(issued) - IssuedBefore) :
              issued[IssuedBefore + k] = gap_name(run, k - 1, Zone)
        /\ \A k \in 1..i :
              /\ query_details[k].index = k - 1
              /\ query_details[k].query = issued[IssuedBefore + k]
        /\ payload_chunks = PayloadsOf(query_details)

\* a walk over three nodes whose second probe brought nothing: the two
\* chunks collected are those of the first and of the third probe
ProbesInIndexOrderWitness ==
    /\ wpc = "finished"
    /\ num_nodes = 3
    /\ query_details[1].payload # None
    /\ query_details[2].payload = None
    /\ query_details[3].payload # None
    /\ query_details[1].payload # query_details[3].payload
    /\ payload_chunks = << query_details[1].payload[1], query_details[3].payload[1] >>

\* the chunks the generator of the zone file just made cuts the message into
ChunksOfInput ==
    IF kin.generator = "auth"
    THEN auth_chunk_message(utf8_encode(kin.message), kin.chunk_size)
    ELSE chunk_message(utf8_encode(kin.message), kin.chunk_size)

\* C25: the zone file has one node record per chunk, the record of chunk i
\* named n{i:04d}.{encoding of chunk i}.{zone}. for i = 0..N-1 in this
\* order, one end marker n{N:04d}.end.{zone}., and N is returned.
ZoneFileMatchesChunks ==
    (kpc = "called" /\ kin.kind = "generate_zone_file") =>
        LET chunks == ChunksOfInput
            N      == Len(chunks)
        IN  /\ kout.value.count = N
            /\ Len(kout.value.nodes) = N
            /\ \A k \in 1..N :
                  kout.value.nodes[k] =
                     node_name_for_index(k - 1, payload_part(chunks[k]), kin.zone, TRUE)
            /\ kout.value.end = end_marker_name(N, kin.zone)

\* C29: the last octet 10 + i of the address of every payload node record
\* of a generated zone file is a byte, whatever the number of chunks.
NodeAddressOctetsAreBytes ==
    (kpc = "called" /\ kin.kind = "generate_zone_file") =>
        \A k \in 1..kout.value.count : kout.value.octets[k] \in 0..255

\* C26: a verification run that ends its walk reports SUCCESS and exits
\* with 0 exactly when the count of the log after the walk equals the count
\* before it, however many probes brought a proof, and reports FAILED and
\* exits with 1 otherwise; report.py exits with 0 exactly when results of a
\* verification exist and their delta is 0.
VerdictFollowsDelta ==
    /\ (wpc = "finished" /\ exit_code.script = "verify_synthesis") =>
          /\ verify_results # None
          /\ LET r == verify_results[1]
             IN  /\ r.auth_queries_after \in { auth_log, 0 }
                 /\ r.delta = r.auth_queries_after - auth_queries_before
                 /\ r.verdict \in { "SUCCESS", "FAILED" }
                 /\ (r.verdict = "SUCCESS") = (r.auth_queries_after = auth_queries_before)
                 /\ (exit_code.code = 0) = (r.auth_queries_after = auth_queries_before)
                 /\ (r.verdict = "FAILED") = (exit_code.code = 1)
    /\ exit_code.script = "report" =>
          (exit_code.code = 0) = (verify_results # None /\ verify_results[1].delta = 0)

\* a verification walk over two nodes none of whose probes brought a proof
\* ends with SUCCESS and exit code 0, the log's count being unchanged
VerdictFollowsDeltaWitness ==
    /\ wpc = "finished"
    /\ exit_code = [ script |-> "verify_synthesis", code |-> 0 ]
    /\ num_nodes = 2
    /\ synthesis_count = 0
    /\ verify_results # None
    /\ verify_results[1].verdict = "SUCCESS"

\* the detail records with success = true
Successes == { k \in 1..Len(query_details) : query_details[k].success }

\* C27: at every pass of a walk's loop there is one detail record per probe
\* completed and at most num_nodes of them; the payload chunks are no more
\* than the records with success = true, whose number is synthesis_count in
\* a verification; and a record has a payload only if it has success = true
\* and a next name.
TalliesConsistent ==
    wpc \in { "walking", "finished", "aborted" } =>
        /\ Len(query_details) = i
        /\ Len(issued) - IssuedBefore = IF wpc = "aborted" THEN i + 1 ELSE i
        /\ i <= num_nodes
        /\ Len(payload_chunks) <= Cardinality(Successes)
        /\ run.role = "verify" => synthesis_count = Cardinality(Successes)
        /\ \A k \in 1..Len(query_details) :
              query_details[k].payload # None =>
                 query_details[k].success /\ query_details[k].next_name # None

\* a verification walk ended with a probe that brought nothing, one that
\* brought a next name without payload and one that brought a payload
TalliesConsistentWitness ==
    /\ wpc = "finished"
    /\ run.role = "verify"
    /\ Len(query_details) = 3
    /\ \E k \in 1..3 : ~query_details[k].success
    /\ \E k \in 1..3 : query_details[k].success /\ query_details[k].payload = None
    /\ Len(payload_chunks) = 1
    /\ synthesis_count = 2

\* C28: the node count main estimates from the message and the chunk size
\* is the number of chunks chunk_message makes of the message's bytes.
EstimateIsChunkCount ==
    (kpc = "called" /\ kin.kind = "estimate") =>
        kout.value = Len(chunk_message(utf8_encode(kin.message), kin.chunk_size))

\* the names of the records of the zone files of both generators for the
\* sampled messages and chunk sizes
GeneratedNames(zone) ==
    UNION { LET zf == generate_zone_file(g, zone, m, size)
            IN  Range(zf.nodes) \cup { zf.end } :
            g \in { "auth", "client" },
            m \in SeqsUpTo(CodePointSample, MaxMsgLen),
            size \in 1..MaxChunkSize }

\* C30: a probe name, of any index and of any suffix of the priming and
\* verification pools, is no node name n{j:04d}.{payload}.{zone}. and no end
\* marker of its zone, is the name of no record of a generated zone file,
\* and parse_node_name returns None for it.
ProbeNamesAreNoRecords ==
    (ppc = "called" /\ pin.kind = "parse_gap_name") =>
        /\ pout = ReturnedValue(None)
        /\ \A j \in IndexSample :
              /\ pin.name # end_marker_name(j, pin.zone)
              /\ \A p \in PayloadSample :
                    pin.name # node_name_for_index(j, p, pin.zone, TRUE)
        /\ pin.name \notin GeneratedNames(pin.zone)

\* the verification probe of index 10000 with the last suffix of the pool
ProbeNamesAreNoRecordsWitness ==
    /\ ppc = "called"
    /\ pin.kind = "parse_gap_name"
    /\ pin.run = [ role |-> "verify", variant |-> Len(suffixes) - 1 ]
    /\ pin.index = 10 ^ PadWidth
    /\ pin.name = << "n", "1", "0", "0", "0", "0", "b", "." >> \o Zone \o << "." >>
    /\ pout = ReturnedValue(None)
====
